---- MODULE Spec2Model ----
(***************************************************************************)
(* Model of the Streamlit reconciliation script (src/app.py, the text of   *)
(* app_py_content): reconcile_data, generate_ai_reason, the summary        *)
(* message, ask_bot and the session chat log.                              *)
(*                                                                         *)
(* Text that the code inspects character by character (column names,       *)
(* account codes, the texts of the text-generation service) is a sequence  *)
(* of one-character strings.  Amounts are fixed-point numbers counted in   *)
(* units of 1/Unit, so that every amount of the model is exactly           *)
(* representable as a float and float arithmetic on it is exact.           *)
(***************************************************************************)
EXTENDS Integers, Sequences, FiniteSets, TLC

VARIABLES
    xero_file,      \* the uploaded Xero file: <<>> or <<DataFrame>>
    focus_file,     \* the uploaded Focus file: <<>> or <<DataFrame>>
    pc,             \* position of the script run
    reconciled_df,  \* <<>> or <<DataFrame>>: the local reconciled_df of the run
    merge_attempted,\* whether pd.merge (line 31) was reached in this run
    ai_service,     \* what the text-generation service did for each row asked
    towrite,        \* <<>> or <<DataFrame>>: the exported spreadsheet bytes
    emailed,        \* <<>> or <<DataFrame>>: the attachment handed to the mail relay
    summary_msg,    \* the WhatsApp summary text built in this run ("" if none)
    asked,          \* <<>> or <<question, outcome>>: the ask_bot call of this run
    session_state,  \* st.session_state: a function on a subset of {"chat_history"}
    error           \* the exception that ended the run ("" if none)

vars == <<xero_file, focus_file, pc, reconciled_df, merge_attempted, ai_service,
          towrite, emailed, summary_msg, asked, session_state, error>>

----------------------------------------------------------------------------
(* Bounds *)

\* most rows in the two uploaded ledgers together (specification SpecRec)
MaxRows == 3
\* most entries of the session chat log
MaxChat == 2

\* amounts are counted in eighths: 1.0 is Unit
Unit == 8

----------------------------------------------------------------------------
(* Text *)

UpperCase == <<"A","B","C","D","E","F","G","H","I","J","K","L","M",
               "N","O","P","Q","R","S","T","U","V","W","X","Y","Z">>
LowerCase == <<"a","b","c","d","e","f","g","h","i","j","k","l","m",
               "n","o","p","q","r","s","t","u","v","w","x","y","z">>
Digits == <<"0","1","2","3","4","5","6","7","8","9">>

\* the characters of the model in code-point order
Alphabet == <<" ", ".">> \o Digits \o <<":">> \o UpperCase \o <<"_">> \o LowerCase

Ord(c) == CHOOSE i \in 1..Len(Alphabet) : Alphabet[i] = c

LowerChar(c) ==
    IF \E i \in 1..26 : UpperCase[i] = c
    THEN LowerCase[CHOOSE i \in 1..26 : UpperCase[i] = c]
    ELSE c

RECURSIVE LStrip(_)
LStrip(s) == IF s # <<>> /\ s[1] = " " THEN LStrip(Tail(s)) ELSE s

RECURSIVE RStrip(_)
RStrip(s) ==
    IF s # <<>> /\ s[Len(s)] = " " THEN RStrip(SubSeq(s, 1, Len(s) - 1)) ELSE s

\* str.strip()
strip(s) == RStrip(LStrip(s))

\* str.lower()
lower(s) == [i \in 1..Len(s) |-> LowerChar(s[i])]

\* str.replace(' ', '_')
replace(s) == [i \in 1..Len(s) |-> IF s[i] = " " THEN "_" ELSE s[i]]

\* lexicographic order of two texts, as Python compares str
RECURSIVE TextLess(_, _)
TextLess(a, b) ==
    IF b = <<>> THEN FALSE
    ELSE IF a = <<>> THEN TRUE
    ELSE IF a[1] = b[1] THEN TextLess(Tail(a), Tail(b))
    ELSE Ord(a[1]) < Ord(b[1])

\* the decimal digits of a natural number
RECURSIVE NatText(_)
NatText(n) ==
    IF n < 10 THEN <<Digits[n + 1]>>
    ELSE NatText(n \div 10) \o <<Digits[(n % 10) + 1]>>

----------------------------------------------------------------------------
(* Cells and data frames *)

Num(n) == [k |-> "num", v |-> n]
Str(s) == [k |-> "str", v |-> s]
NaN == [k |-> "nan", v |-> 0]

\* a DataFrame: column names and rows of cells, one cell per column
DataFrame(columns, rows) == [columns |-> columns, rows |-> rows]

HasCol(df, name) == \E i \in 1..Len(df.columns) : df.columns[i] = name

ColIndex(df, name) ==
    CHOOSE i \in 1..Len(df.columns) :
        /\ df.columns[i] = name
        /\ \A j \in 1..(i - 1) : df.columns[j] # name

\* df[name]
Column(df, name) == [r \in 1..Len(df.rows) |-> df.rows[r][ColIndex(df, name)]]

\* df[name] = values
SetColumn(df, name, values) ==
    IF HasCol(df, name)
    THEN DataFrame(df.columns,
            [r \in 1..Len(df.rows) |->
                [c \in 1..Len(df.columns) |->
                    IF c = ColIndex(df, name) THEN values[r] ELSE df.rows[r][c]]])
    ELSE DataFrame(Append(df.columns, name),
            [r \in 1..Len(df.rows) |-> Append(df.rows[r], values[r])])

\* what a call gives: the value it returns, or the exception it raises
Value(v) == [raised |-> FALSE, value |-> v]
Raise(exc) == [raised |-> TRUE, value |-> exc]

\* a read that gives an empty column, as df.get or reindex would, for a
\* column that df does not have
getitem_default(df, name) ==
    IF HasCol(df, name) THEN Value(Column(df, name))
    ELSE Value([r \in 1..Len(df.rows) |-> NaN])

\* df[name] as the script reads it: a KeyError when df has no such column
getitem(df, name) ==
    IF HasCol(df, name) THEN Value(Column(df, name)) ELSE Raise("KeyError")

\* Series.astype(str) of one cell
astype_str(cell) ==
    CASE cell.k = "str" -> cell.v
      [] cell.k = "nan" -> <<"n", "a", "n">>
      [] OTHER -> IF cell.v < 0 THEN <<"-">> \o NatText(0 - cell.v) ELSE NatText(cell.v)

----------------------------------------------------------------------------
(* Names used by the script *)

account_code == <<"a", "c", "c", "o", "u", "n", "t", "_", "c", "o", "d", "e">>
gl_code == <<"g", "l", "_", "c", "o", "d", "e">>
key == <<"k", "e", "y">>
debit == <<"d", "e", "b", "i", "t">>
credit == <<"c", "r", "e", "d", "i", "t">>
suffix_xero == <<"_", "x", "e", "r", "o">>
suffix_focus == <<"_", "f", "o", "c", "u", "s">>
debit_xero == debit \o suffix_xero
debit_focus == debit \o suffix_focus
credit_xero == credit \o suffix_xero
credit_focus == credit \o suffix_focus
debit_diff == <<"d", "e", "b", "i", "t", "_", "d", "i", "f", "f">>
credit_diff == <<"c", "r", "e", "d", "i", "t", "_", "d", "i", "f", "f">>
status == <<"s", "t", "a", "t", "u", "s">>
ai_explanation == <<"a", "i", "_", "e", "x", "p", "l", "a", "n", "a", "t", "i", "o", "n">>
Match == <<"M", "a", "t", "c", "h">>
Mismatch == <<"M", "i", "s", "m", "a", "t", "c", "h">>
AIErrorPrefix == <<"A", "I", " ", "E", "r", "r", "o", "r", ":", " ">>

\* the tolerance of the status rule, in whole units of the ledger
Tolerance == 1

----------------------------------------------------------------------------
(* reconcile_data *)

Abs(n) == IF n < 0 THEN 0 - n ELSE n

\* df.columns.str.strip().str.lower().str.replace(' ', '_')
normalize_columns(df) ==
    DataFrame([i \in 1..Len(df.columns) |-> replace(lower(strip(df.columns[i])))],
              df.rows)

\* df['key'] = codes.astype(str).str.strip()
with_key(df, codes) ==
    SetColumn(df, key,
        [r \in 1..Len(df.rows) |-> Str(strip(astype_str(codes[r])))])

RECURSIVE Concat(_)
Concat(ss) == IF ss = <<>> THEN <<>> ELSE ss[1] \o Concat(Tail(ss))

DropAt(s, i) == SubSeq(s, 1, i - 1) \o SubSeq(s, i + 1, Len(s))

KeysOf(df) == {df.rows[r][ColIndex(df, key)].v : r \in 1..Len(df.rows)}

RECURSIVE SortKeys(_)
SortKeys(S) ==
    IF S = {} THEN <<>>
    ELSE LET m == CHOOSE x \in S : \A y \in S \ {x} : TextLess(x, y)
         IN  <<m>> \o SortKeys(S \ {m})

RowsWithKey(df, k) ==
    SelectSeq(df.rows, LAMBDA row : row[ColIndex(df, key)].v = k)

\* a join that keeps one row for each key: the first row of each side
RowsForKey_first(left, right, k) ==
    LET L == RowsWithKey(left, k)
        R == RowsWithKey(right, k)
        kl == ColIndex(left, key)
        kr == ColIndex(right, key)
    IN  IF R = <<>>
        THEN <<L[1] \o [j \in 1..(Len(right.columns) - 1) |-> NaN]>>
        ELSE IF L = <<>>
        THEN <<[j \in 1..Len(left.columns) |-> IF j = kl THEN Str(k) ELSE NaN]
                    \o DropAt(R[1], kr)>>
        ELSE <<L[1] \o DropAt(R[1], kr)>>

\* the rows of the outer join that carry key k: every pairing of a left row
\* with a right row, or the rows of the one side padded with NaN
RowsForKey(left, right, k) ==
    LET L == RowsWithKey(left, k)
        R == RowsWithKey(right, k)
        kl == ColIndex(left, key)
        kr == ColIndex(right, key)
    IN  IF R = <<>>
        THEN [i \in 1..Len(L) |->
                L[i] \o [j \in 1..(Len(right.columns) - 1) |-> NaN]]
        ELSE IF L = <<>>
        THEN [i \in 1..Len(R) |->
                [j \in 1..Len(left.columns) |-> IF j = kl THEN Str(k) ELSE NaN]
                    \o DropAt(R[i], kr)]
        ELSE Concat([i \in 1..Len(L) |->
                        [j \in 1..Len(R) |-> L[i] \o DropAt(R[j], kr)]])

\* the column names of the join: a name of both sides other than the key
\* gets the side's suffix
MergedColumns(left, right) ==
    [i \in 1..Len(left.columns) |->
        LET c == left.columns[i]
        IN  IF c # key /\ HasCol(right, c) THEN c \o suffix_xero ELSE c]
    \o
    LET rc == DropAt(right.columns, ColIndex(right, key))
    IN  [i \in 1..Len(rc) |->
            IF HasCol(left, rc[i]) THEN rc[i] \o suffix_focus ELSE rc[i]]

\* pd.merge(left, right, on='key', how='outer', suffixes=('_xero', '_focus'))
merge(left, right) ==
    LET ks == SortKeys(KeysOf(left) \cup KeysOf(right))
    IN  DataFrame(MergedColumns(left, right),
                  Concat([n \in 1..Len(ks) |-> RowsForKey(left, right, ks[n])]))

\* the join left as it is, its NaN cells not replaced
fillna_none(df) == df

\* df.fillna(0)
fillna(df) ==
    DataFrame(df.columns,
        [r \in 1..Len(df.rows) |->
            [c \in 1..Len(df.columns) |->
                IF df.rows[r][c].k = "nan" THEN Num(0) ELSE df.rows[r][c]]])

\* a - b of two columns
Subtract(a, b) == [r \in 1..Len(a) |-> Num(a[r].v - b[r].v)]

\* the lambda of line 35 with <= for <: a difference of exactly 1 is a Match
status_of_le(dd, cd) ==
    IF Abs(dd) <= Tolerance * Unit /\ Abs(cd) <= Tolerance * Unit
    THEN Match ELSE Mismatch

\* the lambda of line 35
status_of(dd, cd) ==
    IF Abs(dd) < Tolerance * Unit /\ Abs(cd) < Tolerance * Unit
    THEN Match ELSE Mismatch

Raised(exc, line, attempted) ==
    [error |-> exc, line |-> line, merge_attempted |-> attempted, value |-> <<>>]

Returned(df) ==
    [error |-> "", line |-> 36, merge_attempted |-> TRUE, value |-> <<df>>]

\* reconcile_data(xero_df, focus_df).  apply_empty says what the installed
\* pandas does at line 35 when the join has no rows: DataFrame.apply returns
\* an empty frame there, which some versions refuse to assign to one column.
reconcile_data(xero_in, focus_in, apply_empty) ==
    LET xero_n == normalize_columns(xero_in)
        focus_n == normalize_columns(focus_in)
        xero_codes == getitem(xero_n, account_code)
        focus_codes == getitem(focus_n, gl_code)
    IN  IF xero_codes.raised THEN Raised(xero_codes.value, 29, FALSE)
        ELSE IF focus_codes.raised THEN Raised(focus_codes.value, 30, FALSE)
        ELSE
        LET xero_df == with_key(xero_n, xero_codes.value)
            focus_df == with_key(focus_n, focus_codes.value)
            merged == fillna(merge(xero_df, focus_df))
            dx == getitem(merged, debit_xero)
            df == getitem(merged, debit_focus)
        IN  IF dx.raised THEN Raised(dx.value, 33, TRUE)
            ELSE IF df.raised THEN Raised(df.value, 33, TRUE)
            ELSE
            LET merged_d == SetColumn(merged, debit_diff,
                                      Subtract(dx.value, df.value))
                cx == getitem(merged_d, credit_xero)
                cf == getitem(merged_d, credit_focus)
            IN  IF cx.raised THEN Raised(cx.value, 34, TRUE)
                ELSE IF cf.raised THEN Raised(cf.value, 34, TRUE)
                ELSE
                LET merged_c == SetColumn(merged_d, credit_diff,
                                          Subtract(cx.value, cf.value))
                IN  IF merged_c.rows = <<>> /\ ~apply_empty
                    THEN Raised("ValueError", 35, TRUE)
                    ELSE Returned(SetColumn(merged_c, status,
                            [r \in 1..Len(merged_c.rows) |->
                                Str(status_of(Column(merged_c, debit_diff)[r].v,
                                              Column(merged_c, credit_diff)[r].v))]))

----------------------------------------------------------------------------
(* The external text-generation service and generate_ai_reason *)

\* what a call of openai.ChatCompletion.create does: it returns a message
\* whose content is text (ok), or the call or the reading of its response
\* raises an exception whose str() is text
Outcome(ok, text) == [ok |-> ok, text |-> text]

\* generate_ai_reason without its try: the exception of the call gets out
generate_ai_reason_uncaught(df, r, service) ==
    IF Column(df, status)[r].v # Mismatch THEN Value(<<>>)
    ELSE IF service[r].ok THEN Value(strip(service[r].text))
    ELSE Raise("OpenAIError")

\* generate_ai_reason(row) for row r of df, service[r] being what the service
\* does when asked about that row
generate_ai_reason(df, r, service) ==
    IF Column(df, status)[r].v # Mismatch THEN Value(<<>>)
    ELSE IF service[r].ok THEN Value(strip(service[r].text))
    ELSE Value(AIErrorPrefix \o service[r].text)

\* an explanation stage that keeps the Mismatch rows only
explain_mismatched_only(df, service) ==
    LET rows == SelectSeq(df.rows, LAMBDA row : row[ColIndex(df, status)].v = Mismatch)
        asked_rows == SelectSeq([r \in 1..Len(df.rows) |-> r],
                                LAMBDA r : Column(df, status)[r].v = Mismatch)
    IN  Value(SetColumn(DataFrame(df.columns, rows), ai_explanation,
                [i \in 1..Len(rows) |->
                    Str(IF service[asked_rows[i]].ok
                        THEN strip(service[asked_rows[i]].text)
                        ELSE AIErrorPrefix \o service[asked_rows[i]].text)]))

\* reconciled_df['ai_explanation'] = reconciled_df.apply(generate_ai_reason, axis=1)
\* An exception that generate_ai_reason lets through ends the apply.
explain(df, service) ==
    LET res == [r \in 1..Len(df.rows) |-> generate_ai_reason(df, r, service)]
    IN  IF \E r \in 1..Len(df.rows) : res[r].raised
        THEN Raise("OpenAIError")
        ELSE Value(SetColumn(df, ai_explanation,
                        [r \in 1..Len(df.rows) |-> Str(res[r].value)]))

MismatchRows(df) == {r \in 1..Len(df.rows) : Column(df, status)[r].v = Mismatch}

----------------------------------------------------------------------------
(* The summary message *)

RECURSIVE SumSeq(_)
SumSeq(s) == IF s = <<>> THEN 0 ELSE s[1] + SumSeq(Tail(s))

\* (reconciled_df['status'] == 'Mismatch').sum()
mismatch_count(df) ==
    SumSeq([r \in 1..Len(df.rows) |->
                IF Column(df, status)[r].v = Mismatch THEN 1 ELSE 0])

\* the total over the Mismatch rows only
total_diff_mismatched(df) ==
    SumSeq([r \in 1..Len(df.rows) |->
                IF Column(df, status)[r].v = Mismatch
                THEN Abs(Column(df, debit_diff)[r].v) + Abs(Column(df, credit_diff)[r].v)
                ELSE 0])

\* (reconciled_df['debit_diff'].abs() + reconciled_df['credit_diff'].abs()).sum()
total_diff(df) ==
    SumSeq([r \in 1..Len(df.rows) |->
                Abs(Column(df, debit_diff)[r].v) + Abs(Column(df, credit_diff)[r].v)])

\* f"{x:.2f}" of the amount x >= 0 (in units of 1/Unit): the nearest number
\* of hundredths, a tie going to the even one, then the integer part, a
\* point and two digits
format_2f(x) ==
    LET q == (x * 100) \div Unit
        rem == (x * 100) % Unit
        h == IF 2 * rem > Unit THEN q + 1
             ELSE IF 2 * rem = Unit THEN q + (q % 2)
             ELSE q
    IN  ToString(h \div 100) \o "." \o ToString((h % 100) \div 10) \o ToString(h % 10)

\* the f-string of line 124
summary_of(df) ==
    "Reconciliation done. " \o ToString(mismatch_count(df))
        \o " mismatches found. Total difference: " \o format_2f(total_diff(df)) \o "."

----------------------------------------------------------------------------
(* ask_bot *)

\* ask_bot(question, reconciled_df): the stripped content of the response;
\* an exception of the call is not caught
ask_bot(question, df, outcome) ==
    IF outcome.ok THEN Value(strip(outcome.text)) ELSE Raise("OpenAIError")

----------------------------------------------------------------------------
(* Inputs *)

\* a ledger as pd.read_csv returns it: the header as written in the file,
\* account codes as text, amounts as numbers (NaN for an empty cell)
Row(code, d, c) == <<Str(code), d, c>>

XeroHeader == <<<<"A", "c", "c", "o", "u", "n", "t", " ", "C", "o", "d", "e">>, <<"D", "e", "b", "i", "t">>, <<"C", "r", "e", "d", "i", "t">>>>
FocusHeader == <<<<" ", "g", "l", "_", "c", "o", "d", "e">>, <<"D", "E", "B", "I", "T">>, <<"C", "r", "e", "d", "i", "t", " ">>>>
XeroNoKey == <<<<"A", "c", "c", "o", "u", "n", "t">>, <<"D", "e", "b", "i", "t">>, <<"C", "r", "e", "d", "i", "t">>>>
XeroNoDebit == <<<<"A", "c", "c", "o", "u", "n", "t", " ", "C", "o", "d", "e">>, <<"C", "r", "e", "d", "i", "t">>>>
FocusNoKey == <<<<"C", "o", "d", "e">>, <<"D", "e", "b", "i", "t">>, <<"C", "r", "e", "d", "i", "t">>>>
FocusNoCredit == <<<<"G", "L", " ", "C", "o", "d", "e">>, <<"D", "e", "b", "i", "t">>>>

\* n whole units
U(n) == Num(n * Unit)

\* the ledgers of a session
SessionXero ==
    { DataFrame(XeroHeader, <<Row(<<"1", "0", "0", "0">>, U(500), U(0)),
                              Row(<<"2", "0", "0", "0">>, U(100), U(0)),
                              Row(<<"3", "0", "0", "0">>, U(50), U(0))>>),
      DataFrame(XeroHeader, <<Row(<<"1", "0", "0", "0">>, U(44), U(0)),
                              Row(<<"2", "0", "0", "0">>, Num(12), NaN)>>),
      DataFrame(XeroHeader, <<Row(<<" ", "1", "0", "0", "0">>, Num(4), U(0)),
                              Row(<<"1", "0", "0", "0">>, Num(4), Num(1))>>),
      DataFrame(XeroHeader, <<>>),
      DataFrame(XeroNoKey, <<Row(<<"1", "0", "0", "0">>, U(1), U(0))>>),
      DataFrame(XeroNoDebit, << <<Str(<<"1", "0", "0", "0">>), U(1)>> >>) }

SessionFocus ==
    { DataFrame(FocusHeader, <<Row(<<"1", "0", "0", "0">>, U(500), U(0)),
                               Row(<<"2", "0", "0", "0">>, U(80), U(0))>>),
      DataFrame(FocusHeader, <<Row(<<"2", "0", "0", "0">>, U(1), U(0)),
                               Row(<<"3", "0", "0", "0">>, NaN, U(1))>>),
      DataFrame(FocusHeader, <<>>),
      DataFrame(FocusNoKey, <<Row(<<"1", "0", "0", "0">>, U(1), U(0))>>),
      DataFrame(FocusNoCredit, << <<Str(<<"1", "0", "0", "0">>), U(1)>> >>) }

\* what the service may do in one call for a row's explanation
Outcomes ==
    { Outcome(TRUE, <<" ">>), Outcome(TRUE, <<" ", "x", " ">>),
      Outcome(FALSE, <<"e">>) }

\* what the service may do in one call of ask_bot
AskOutcomes == { Outcome(TRUE, <<" ", "x", " ">>), Outcome(FALSE, <<"e">>) }

Questions == {"q1", "q2"}

\* the rows of the generated ledgers of SpecRec
RecXeroRows ==
    { Row(code, d, c) : code \in {<<"1">>, <<" ", "1">>, <<"2">>},
                        d \in {Num(0), Num(12)}, c \in {Num(0), Num(8)} }

RecFocusRows ==
    { Row(code, d, c) : code \in {<<"1", " ">>, <<"2">>},
                        d \in {Num(4), NaN}, c \in {Num(0), Num(4)} }

----------------------------------------------------------------------------
(* The mail and messaging relays *)

\* send_email(file_buffer, filename): "Email sent.", or the relay's exception
send_email(file_buffer, delivered) ==
    IF delivered THEN Value("Email sent.") ELSE Raise("SMTPError")

\* send_whatsapp_message(to_number, message): the message sid, or the
\* relay's exception
send_whatsapp_message(to_number, message, delivered) ==
    IF delivered THEN Value("sid") ELSE Raise("TwilioError")

----------------------------------------------------------------------------
(* The script run.  Streamlit runs the script from the top on every          *)
(* interaction.  Between two runs pc is "ready" (nothing has run, or the     *)
(* last run did nothing), "done" (the last run reached its end) or "failed" *)
(* (an exception ended it); the variables of the last run still show what   *)
(* it did.                                                                   *)

Idle == {"ready", "done", "failed"}

NoSession == [k \in {} |-> <<>>]

\* a run starts with none of its variables set
FreshRun ==
    /\ ai_service' = <<>>
    /\ towrite' = <<>>
    /\ emailed' = <<>>
    /\ summary_msg' = ""
    /\ asked' = <<>>

Init ==
    /\ xero_file \in {<<>>} \cup {<<df>> : df \in SessionXero}
    /\ focus_file \in {<<>>} \cup {<<df>> : df \in SessionFocus}
    /\ pc = "ready"
    /\ reconciled_df = <<>>
    /\ merge_attempted = FALSE
    /\ ai_service = <<>>
    /\ towrite = <<>>
    /\ emailed = <<>>
    /\ summary_msg = ""
    /\ asked = <<>>
    /\ session_state = NoSession
    /\ error = ""

\* line 99, the condition false: nothing below it runs
RunSkipped ==
    /\ pc \in Idle
    /\ \E button \in BOOLEAN :
        ~(button /\ xero_file # <<>> /\ focus_file # <<>>)
    /\ reconciled_df' = <<>>
    /\ merge_attempted' = FALSE
    /\ FreshRun
    /\ error' = ""
    /\ pc' = "ready"
    /\ UNCHANGED <<xero_file, focus_file, session_state>>

\* lines 99-104: the button is pressed with both files uploaded
Reconcile ==
    /\ pc \in Idle
    /\ xero_file # <<>> /\ focus_file # <<>>
    /\ \E apply_empty \in BOOLEAN :
        LET res == reconcile_data(xero_file[1], focus_file[1], apply_empty)
        IN  /\ merge_attempted' = res.merge_attempted
            /\ error' = res.error
            /\ reconciled_df' = res.value
            /\ pc' = IF res.error = "" THEN "reconciled" ELSE "failed"
    /\ FreshRun
    /\ UNCHANGED <<xero_file, focus_file, session_state>>

\* lines 106-109
Explain ==
    /\ pc = "reconciled"
    /\ \E service \in [MismatchRows(reconciled_df[1]) -> Outcomes] :
        LET res == explain(reconciled_df[1], service)
        IN  /\ ai_service' = service
            /\ IF res.raised
               THEN /\ error' = res.value
                    /\ pc' = "failed"
                    /\ UNCHANGED reconciled_df
               ELSE /\ reconciled_df' = <<res.value>>
                    /\ pc' = "explained"
                    /\ UNCHANGED error
    /\ UNCHANGED <<xero_file, focus_file, merge_attempted, towrite, emailed,
                   summary_msg, asked, session_state>>

\* lines 111-115: reconciled_df.to_excel(towrite)
Export ==
    /\ pc = "explained"
    /\ towrite' = reconciled_df
    /\ pc' = "exported"
    /\ UNCHANGED <<xero_file, focus_file, reconciled_df, merge_attempted,
                   ai_service, emailed, summary_msg, asked, session_state, error>>

\* lines 117-119
Email ==
    /\ pc = "exported"
    /\ \E checked \in BOOLEAN, delivered \in BOOLEAN :
        IF ~checked
        THEN /\ pc' = "emailed"
             /\ UNCHANGED <<emailed, error>>
        ELSE LET result == send_email(towrite, delivered)
             IN  IF result.raised
                 THEN /\ error' = result.value
                      /\ pc' = "failed"
                      /\ UNCHANGED emailed
                 ELSE /\ emailed' = towrite
                      /\ pc' = "emailed"
                      /\ UNCHANGED error
    /\ UNCHANGED <<xero_file, focus_file, reconciled_df, merge_attempted,
                   ai_service, towrite, summary_msg, asked, session_state>>

\* lines 121-128
WhatsApp ==
    /\ pc = "emailed"
    /\ \E checked \in BOOLEAN, to_number \in {"", "+1234567890"},
          delivered \in BOOLEAN :
        IF ~checked
        THEN /\ pc' = "summarised"
             /\ UNCHANGED <<summary_msg, error>>
        ELSE /\ summary_msg' = summary_of(reconciled_df[1])
             /\ IF to_number = ""
                THEN /\ pc' = "summarised"
                     /\ UNCHANGED error
                ELSE LET sid == send_whatsapp_message(to_number, summary_msg',
                                                      delivered)
                     IN  IF sid.raised
                         THEN /\ error' = sid.value
                              /\ pc' = "failed"
                         ELSE /\ pc' = "summarised"
                              /\ UNCHANGED error
    /\ UNCHANGED <<xero_file, focus_file, reconciled_df, merge_attempted,
                   ai_service, towrite, emailed, asked, session_state>>

\* the log set to empty on every run, without the test of line 131
init_chat_history_always(state) == [c \in {"chat_history"} |-> <<>>]

\* lines 131-132: st.session_state once the chat log exists
init_chat_history(state) ==
    IF "chat_history" \in DOMAIN state
    THEN state
    ELSE [c \in {"chat_history"} |-> <<>>]

\* lines 130-143
Assistant ==
    /\ pc = "summarised"
    /\ \E user_input \in {""} \cup Questions, outcome \in AskOutcomes :
        LET state == init_chat_history(session_state)
            history == state["chat_history"]
        IN  /\ user_input # "" => Len(history) < MaxChat
            /\ IF user_input = ""
               THEN /\ session_state' = state
                    /\ pc' = "done"
                    /\ UNCHANGED <<asked, error>>
               ELSE LET answer == ask_bot(user_input, reconciled_df[1], outcome)
                    IN  /\ asked' = <<user_input, outcome>>
                        /\ IF answer.raised
                           THEN /\ error' = answer.value
                                /\ session_state' = state
                                /\ pc' = "failed"
                           ELSE /\ session_state' =
                                      [c \in {"chat_history"} |->
                                          Append(history,
                                                 <<user_input, answer.value>>)]
                                /\ pc' = "done"
                                /\ UNCHANGED error
    /\ UNCHANGED <<xero_file, focus_file, reconciled_df, merge_attempted,
                   ai_service, towrite, emailed, summary_msg>>

Next ==
    \/ RunSkipped
    \/ Reconcile
    \/ Explain
    \/ Export
    \/ Email
    \/ WhatsApp
    \/ Assistant

Spec == Init /\ [][Next]_vars

----------------------------------------------------------------------------
(* reconcile_data on generated ledgers *)

InitRec ==
    /\ \E a \in 0..MaxRows :
        \E b \in 0..(MaxRows - a) :
            /\ xero_file \in
                 {<<DataFrame(XeroHeader, rows)>> : rows \in [1..a -> RecXeroRows]}
            /\ focus_file \in
                 {<<DataFrame(FocusHeader, rows)>> : rows \in [1..b -> RecFocusRows]}
    /\ pc = "ready"
    /\ reconciled_df = <<>>
    /\ merge_attempted = FALSE
    /\ ai_service = <<>>
    /\ towrite = <<>>
    /\ emailed = <<>>
    /\ summary_msg = ""
    /\ asked = <<>>
    /\ session_state = NoSession
    /\ error = ""

NextRec == Reconcile

SpecRec == InitRec /\ [][NextRec]_vars

----------------------------------------------------------------------------
(* Properties of reconcile_data (specification SpecRec)                      *)

Produced == reconciled_df # <<>>

Cell(df, r, name) == Column(df, name)[r]

\* the rows of the uploaded ledger and the normalized key of each; the
\* ledgers of SpecRec hold the code, the debit and the credit in that order
FileRows(file) == file[1].rows
NormKey(row) == strip(row[1].v)
FileKeys(file) == {NormKey(FileRows(file)[i]) : i \in 1..Len(FileRows(file))}
Occurrences(file, k) ==
    {i \in 1..Len(FileRows(file)) : NormKey(FileRows(file)[i]) = k}

\* an amount of the ledger as a number, an empty cell counting as 0
Filled(cell) == IF cell.k = "nan" THEN 0 ELSE cell.v

RowsOfKey(df, k) == {r \in 1..Len(df.rows) : Cell(df, r, key).v = k}

WithinTolerance(dd, cd) == Abs(dd) < Unit /\ Abs(cd) < Unit

StatusFollowsRule(df, r) ==
    Cell(df, r, status).v =
        IF WithinTolerance(Cell(df, r, debit_diff).v, Cell(df, r, credit_diff).v)
        THEN Match ELSE Mismatch

AtLeastOne(n) == IF n = 0 THEN 1 ELSE n

\* C1: every row whose key is in both ledgers pairs a row of each ledger,
\* its differences are debitA - debitB and creditA - creditB, and its status
\* is Match exactly when both differences are below 1 in absolute value.
C1_StatusRule ==
    Produced =>
        LET df == reconciled_df[1]
        IN  \A r \in 1..Len(df.rows) :
                LET k == Cell(df, r, key).v
                IN  k \in FileKeys(xero_file) \cap FileKeys(focus_file) =>
                    /\ \E i \in Occurrences(xero_file, k),
                          j \in Occurrences(focus_file, k) :
                        /\ Cell(df, r, debit_xero) = Num(Filled(FileRows(xero_file)[i][2]))
                        /\ Cell(df, r, credit_xero) = Num(Filled(FileRows(xero_file)[i][3]))
                        /\ Cell(df, r, debit_focus) = Num(Filled(FileRows(focus_file)[j][2]))
                        /\ Cell(df, r, credit_focus) = Num(Filled(FileRows(focus_file)[j][3]))
                    /\ Cell(df, r, debit_diff).v =
                          Cell(df, r, debit_xero).v - Cell(df, r, debit_focus).v
                    /\ Cell(df, r, credit_diff).v =
                          Cell(df, r, credit_xero).v - Cell(df, r, credit_focus).v
                    /\ StatusFollowsRule(df, r)

\* a row of a key of both ledgers whose debit difference is exactly 1 and
\* whose credit difference is 0: Mismatch
C1_Witness ==
    /\ Produced
    /\ \E r \in 1..Len(reconciled_df[1].rows) :
        /\ Cell(reconciled_df[1], r, key).v
              \in FileKeys(xero_file) \cap FileKeys(focus_file)
        /\ Cell(reconciled_df[1], r, debit_diff).v = Unit
        /\ Cell(reconciled_df[1], r, credit_diff).v = 0
        /\ Cell(reconciled_df[1], r, status).v = Mismatch

OneSidedRow(df, r, k) ==
    /\ StatusFollowsRule(df, r)
    /\ k \in FileKeys(xero_file) =>
        /\ Cell(df, r, debit_focus) = Num(0)
        /\ Cell(df, r, credit_focus) = Num(0)
        /\ Cell(df, r, debit_diff) = Cell(df, r, debit_xero)
        /\ Cell(df, r, credit_diff) = Cell(df, r, credit_xero)
        /\ \E i \in Occurrences(xero_file, k) :
            /\ Cell(df, r, debit_xero) = Num(Filled(FileRows(xero_file)[i][2]))
            /\ Cell(df, r, credit_xero) = Num(Filled(FileRows(xero_file)[i][3]))
    /\ k \in FileKeys(focus_file) =>
        /\ Cell(df, r, debit_xero) = Num(0)
        /\ Cell(df, r, credit_xero) = Num(0)
        /\ Cell(df, r, debit_diff) = Num(0 - Cell(df, r, debit_focus).v)
        /\ Cell(df, r, credit_diff) = Num(0 - Cell(df, r, credit_focus).v)
        /\ \E j \in Occurrences(focus_file, k) :
            /\ Cell(df, r, debit_focus) = Num(Filled(FileRows(focus_file)[j][2]))
            /\ Cell(df, r, credit_focus) = Num(Filled(FileRows(focus_file)[j][3]))

OneSidedKeys ==
    (FileKeys(xero_file) \cup FileKeys(focus_file))
        \ (FileKeys(xero_file) \cap FileKeys(focus_file))

\* C3 as stated: a key of exactly one ledger has exactly one row, with the
\* absent side at 0.
C3_OneRowPerOneSidedKey ==
    Produced =>
        \A k \in OneSidedKeys :
            /\ Cardinality(RowsOfKey(reconciled_df[1], k)) = 1
            /\ \A r \in RowsOfKey(reconciled_df[1], k) :
                OneSidedRow(reconciled_df[1], r, k)

\* C3 as amended: a key of exactly one ledger has one row for each of its
\* occurrences in that ledger (exactly one when it occurs once), each with
\* the absent side at 0.
C3_RowPerOccurrence ==
    Produced =>
        \A k \in OneSidedKeys :
            /\ Cardinality(RowsOfKey(reconciled_df[1], k)) =
                  Cardinality(Occurrences(xero_file, k))
                      + Cardinality(Occurrences(focus_file, k))
            /\ \A r \in RowsOfKey(reconciled_df[1], k) :
                OneSidedRow(reconciled_df[1], r, k)

\* a key on two rows of A and on none of B: two rows, one of them with the
\* debit difference 1.5 and Mismatch
C3_Witness ==
    /\ Produced
    /\ \E k \in FileKeys(xero_file) \ FileKeys(focus_file) :
        /\ Cardinality(RowsOfKey(reconciled_df[1], k)) = 2
        /\ \E r \in RowsOfKey(reconciled_df[1], k) :
            /\ Cell(reconciled_df[1], r, debit_xero).v = 12
            /\ Cell(reconciled_df[1], r, debit_focus) = Num(0)
            /\ Cell(reconciled_df[1], r, debit_diff).v = 12
            /\ Cell(reconciled_df[1], r, status).v = Mismatch

----------------------------------------------------------------------------
(* Properties of the session (specification Spec)                            *)

Explained == Produced /\ HasCol(reconciled_df[1], ai_explanation)

\* C4 as stated: once the explanations are set, a Match row has an empty
\* explanation and a Mismatch row a non-empty one.
C4_ExplanationMatchesStatus ==
    Explained =>
        \A r \in 1..Len(reconciled_df[1].rows) :
            /\ Cell(reconciled_df[1], r, status).v = Match
                  => Cell(reconciled_df[1], r, ai_explanation).v = <<>>
            /\ Cell(reconciled_df[1], r, status).v = Mismatch
                  => Cell(reconciled_df[1], r, ai_explanation).v # <<>>

\* the services that answer every row and agree with ai_service on the rows
\* it answered
AllAnswered(df) ==
    {alt \in [MismatchRows(df) -> {o \in Outcomes : o.ok}] :
        \A r \in MismatchRows(df) : ai_service[r].ok => alt[r] = ai_service[r]}

\* C5: whatever calls fail, the explanation stage sets the explanation of
\* every row: the placeholder "AI Error: <exception>" on a row whose call
\* failed, and on every other row the explanation it gets when no call fails.
C5_FailuresIsolated ==
    (Produced /\ pc # "reconciled") =>
        LET df == reconciled_df[1]
        IN  /\ HasCol(df, ai_explanation)
            /\ DOMAIN ai_service = MismatchRows(df)
            /\ \A r \in 1..Len(df.rows) :
                IF r \in MismatchRows(df) /\ ~ai_service[r].ok
                THEN Cell(df, r, ai_explanation).v
                        = AIErrorPrefix \o ai_service[r].text
                ELSE \A alt \in AllAnswered(df) :
                        /\ ~explain(df, alt).raised
                        /\ Cell(explain(df, alt).value, r, ai_explanation)
                              = Cell(df, r, ai_explanation)

\* a table explained with one call failed and another answered "x"
C5_Witness ==
    /\ pc = "explained"
    /\ \E r \in MismatchRows(reconciled_df[1]) :
        /\ ~ai_service[r].ok
        /\ Cell(reconciled_df[1], r, ai_explanation).v = AIErrorPrefix \o <<"e">>
    /\ \E r \in MismatchRows(reconciled_df[1]) :
        /\ ai_service[r].ok
        /\ Cell(reconciled_df[1], r, ai_explanation).v = <<"x">>

Uploaded == xero_file # <<>> /\ focus_file # <<>>

Lacks(file, names) ==
    \E n \in names : ~HasCol(normalize_columns(file[1]), n)

MissingKey ==
    Lacks(xero_file, {account_code}) \/ Lacks(focus_file, {gl_code})

MissingRequired ==
    \/ Lacks(xero_file, {account_code, debit, credit})
    \/ Lacks(focus_file, {gl_code, debit, credit})

\* C6 as stated: with a required column missing, reconcile_data fails with
\* an input error before the join is attempted, and produces no table.
C6_RejectedBeforeJoin ==
    (Uploaded /\ MissingRequired) =>
        /\ ~Produced
        /\ ~merge_attempted
        /\ pc \in {"ready", "failed"}
        /\ pc = "failed" => error = "KeyError"

\* C6 as amended: with a required column missing, reconcile_data fails with
\* a KeyError and produces no table; it fails before the join when a key
\* column is missing, and after the join otherwise.
C6_NoTableOnMissingColumn ==
    (Uploaded /\ MissingRequired) =>
        /\ ~Produced
        /\ pc \in {"ready", "failed"}
        /\ pc = "ready" => ~merge_attempted
        /\ pc = "failed" =>
            /\ error = "KeyError"
            /\ merge_attempted <=> ~MissingKey

\* a run that failed on a missing debit or credit column, the join done
C6_Witness ==
    /\ Uploaded
    /\ MissingRequired
    /\ ~MissingKey
    /\ pc = "failed"
    /\ error = "KeyError"
    /\ merge_attempted

\* C7 as stated: when the call of ask_bot fails, the run goes on, and the
\* log ends with the question and an error text as its answer.
C7_AskFailureIsAnswer ==
    (asked # <<>> /\ ~asked[2].ok) =>
        /\ pc = "done"
        /\ error = ""
        /\ LET history == session_state["chat_history"]
           IN  /\ Len(history) > 0
               /\ history[Len(history)][1] = asked[1]
               /\ history[Len(history)][2] # <<>>

RECURSIVE TotalOfRows(_, _)
TotalOfRows(df, n) ==
    IF n = 0 THEN 0
    ELSE TotalOfRows(df, n - 1)
            + Abs(Cell(df, n, debit_xero).v - Cell(df, n, debit_focus).v)
            + Abs(Cell(df, n, credit_xero).v - Cell(df, n, credit_focus).v)

\* C8: the summary message names the number of Mismatch rows and the sum of
\* |debit_diff| + |credit_diff| over all rows with two decimals; for 2
\* mismatches and a total of 45.5 it is the text of the specification.
C8_SummaryMessage ==
    summary_msg # "" =>
        LET df == reconciled_df[1]
            count == Cardinality(MismatchRows(df))
            total == TotalOfRows(df, Len(df.rows))
        IN  /\ summary_msg =
                  "Reconciliation done. " \o ToString(count)
                      \o " mismatches found. Total difference: "
                      \o format_2f(total) \o "."
            /\ (count = 2 /\ 2 * total = 91 * Unit) =>
                  summary_msg =
                      "Reconciliation done. 2 mismatches found. Total difference: 45.50."
            /\ (count = 0 /\ 8 * total = 9 * Unit) =>
                  summary_msg =
                      "Reconciliation done. 0 mismatches found. Total difference: 1.12."

\* the message of a table with two Mismatch rows (44 and 1) and a Match row
\* (0.5)
C8_Witness ==
    /\ summary_msg = "Reconciliation done. 2 mismatches found. Total difference: 45.50."
    /\ Cardinality(MismatchRows(reconciled_df[1])) = 2
    /\ Len(reconciled_df[1].rows) = 3

\* the table without its explanations
Core(df) ==
    IF HasCol(df, ai_explanation)
    THEN DataFrame(DropAt(df.columns, ColIndex(df, ai_explanation)),
            [r \in 1..Len(df.rows) |->
                DropAt(df.rows[r], ColIndex(df, ai_explanation))])
    ELSE df

\* C9: no step of a run after reconcile_data, whether it succeeds or fails,
\* changes the rows of the table or anything of a row but its explanation.
C9_TableFrame ==
    [][pc \notin Idle =>
          /\ reconciled_df' # <<>>
          /\ Core(reconciled_df'[1]) = Core(reconciled_df[1])]_vars

\* a run that explained, exported, mailed and summarised the table and
\* whose assistant call failed
C9_Witness ==
    /\ pc = "failed"
    /\ error = "OpenAIError"
    /\ Explained
    /\ \E r \in 1..Len(reconciled_df[1].rows) :
          Cell(reconciled_df[1], r, ai_explanation).v # <<>>
    /\ emailed # <<>>
    /\ summary_msg # ""
    /\ asked # <<>>

ChatLog(state) ==
    IF "chat_history" \in DOMAIN state THEN state["chat_history"] ELSE <<>>

\* C10: every step leaves the chat log as it is or appends one (question,
\* answer) pair at its end, and a log that exists is never initialised again.
C10_AppendOnly ==
    [][LET old == ChatLog(session_state)
           new == ChatLog(session_state')
       IN  /\ "chat_history" \in DOMAIN session_state
              => "chat_history" \in DOMAIN session_state'
           /\ \/ new = old
              \/ /\ Len(new) = Len(old) + 1
                 /\ SubSeq(new, 1, Len(old)) = old
                 /\ new[Len(new)][1] \in Questions
                 /\ new[Len(new)] = <<asked'[1], strip(asked'[2].text)>>]_vars

\* a log of two entries, in the order they were asked
C10_Witness ==
    /\ Len(ChatLog(session_state)) = 2
    /\ ChatLog(session_state)[1][1] = "q2"
    /\ ChatLog(session_state)[2][1] = "q1"

====
